---- MODULE Spec2Model ----
(***************************************************************************)
(* Collection<V> (src/src/Collection.ts): an insertion-ordered Map keyed   *)
(* by a field of the stored values, with synchronous and asynchronous      *)
(* find / filter / map / sweep.                                            *)
(*                                                                         *)
(* The collection is a sequence of <<key, value>> pairs (the iteration     *)
(* order of the underlying Map).  An asynchronous operation is modelled at *)
(* the grain of the JavaScript run-to-completion steps it is made of: the  *)
(* synchronous section of the call (one step per predicate invocation,     *)
(* during which nothing else runs), the settlement of each promise a       *)
(* predicate returned, the reaction job queued by each settlement (FIFO),  *)
(* and the continuation after the await.  The constructor and the          *)
(* synchronous operations (push, remove, find, filter, map, sweep,         *)
(* reverse, random) are modelled as calls that return before the next one  *)
(* is made.                                                                *)
(***************************************************************************)
EXTENDS Integers, Sequences, FiniteSets, TLC

\* Longest collection built by the constructor.
MaxLen == 2
\* Mutations of the live collection made during one asynchronous traversal
\* by code other than the traversal's own callbacks.
MaxMutations == 1

\* One key more than the constructor uses, so that a push can add an entry.
Keys == 1..(MaxLen + 1)
\* Two objects may carry the same key: tag 0 is the object given to the constructor,
\* tag 1 a different object pushed later.
Tags == {0, 1}

Item(k, t) == [id |-> k, tag |-> t]
Items == {Item(k, t) : k \in Keys, t \in Tags}

\* The key read off a value that has no such field: undefined.
UndefinedKey == 0

\* An already-formed entry [k, v].
Pair(k, v) == [first |-> k, second |-> v]
Pairs == {Pair(v.id, v) : v \in Items}

\* v[key]
KeyOf(v, key) == IF key \in DOMAIN v THEN v[key] ELSE UndefinedKey

SyncOps == {"find", "filter", "map", "sweep"}
AsyncOps == {"findAsync", "filterAsync", "mapAsync", "sweepAsync"}

VARIABLES
  coll,          \* the Map: sequence of <<key, value>> in iteration order
  op,            \* the operation called ("none" before the call)
  callable,      \* whether the argument fn is a function
  pc,            \* "idle" | "starting" | "awaiting" | "done"
  thrown,        \* "none" | "TypeError": exception raised synchronously to the caller
  ret,           \* value returned by a synchronous operation
  promise,       \* promise returned by an asynchronous operation
  snap,          \* [...this]: the array the invocations are mapped over
  next,          \* index in snap of the next invocation to start
  inv,           \* per index of snap: state of the promise returned by fn
  jobs,          \* queued reaction jobs (indices of snap), FIFO
  agg,           \* state of Promise.any / Promise.allSettled
  results,       \* the collection filled by filterAsync / mapAsync
  previousSize,  \* sweep's previousSize
  atCall,        \* history: the collection when the operation was called
  calls,         \* history: the <<key, value>> pairs fn was invoked with, in order
  seen,          \* history: the collection the latest invocation received as third argument
  settled,       \* history: indices of snap in the order their promises settled
  mutations,     \* history: number of mutations made by others during the traversal
  args,          \* the arguments of the latest call
  derived,       \* the collection object returned by the latest filter / map
  prior,          \* history: the call before the latest one
  immediate,     \* history: indices of snap whose promise was settled when fn returned it
  swept          \* history: number of entries deleted by sweepAsync's own callbacks

vars == <<coll, op, callable, pc, thrown, ret, promise, snap, next, inv, jobs, agg,
          results, previousSize, atCall, calls, seen, settled, mutations,
          args, derived, prior, immediate, swept>>

-----------------------------------------------------------------------------
\* The Map primitives.

MapHas(m, k) == \E i \in 1..Len(m) : m[i][1] = k

\* (variant: a key that is set again moves to the end)
MapSetAppend(m, k, v) == Append(SelectSeq(m, LAMBDA e : e[1] # k), <<k, v>>)

MapSet(m, k, v) ==
  IF MapHas(m, k)
    THEN [i \in 1..Len(m) |-> IF m[i][1] = k THEN <<k, v>> ELSE m[i]]
    ELSE Append(m, <<k, v>>)

MapDelete(m, k) == SelectSeq(m, LAMBDA e : e[1] # k)

\* The key name given to the constructor by default.
KeyName == "id"

\* values.map(v => [v[key], v]) handed to the Map constructor.
RECURSIVE Construct(_)
Construct(values) ==
  IF values = <<>> THEN <<>>
  ELSE LET init == SubSeq(values, 1, Len(values) - 1)
           v == values[Len(values)]
       IN MapSet(Construct(init), KeyOf(v, KeyName), v)

\* for (const [key, value] of entries) m.set(key, value)
RECURSIVE SetAll(_, _)
SetAll(m, entries) ==
  IF entries = <<>> THEN m
  ELSE SetAll(MapSet(m, Head(entries)[1], Head(entries)[2]), Tail(entries))

\* The Map constructor on an iterable of entries.
MapFrom(data) == SetAll(<<>>, [i \in 1..Len(data) |-> <<data[i].first, data[i].second>>])

\* What the constructor can be given: an array (Array.isArray is true) or another
\* iterable, such as a Map.
Shapes == {"array", "iterable"}

\* (variant: entries are used directly whatever they come in)
ConstructorDirect(shape, values) ==
  IF \A i \in 1..Len(values) : values[i] \in Pairs THEN MapFrom(values) ELSE Construct(values)

\* new Collection(values)
Constructor(shape, values) ==
  IF shape = "array" THEN Construct(values) ELSE MapFrom(values)

RECURSIVE Push(_, _)
Push(m, items) ==
  IF items = <<>> THEN m
  ELSE Push(MapSet(m, KeyOf(Head(items), KeyName), Head(items)), Tail(items))

\* (variant: remove drops the newest entry)
RemoveLast(m, items) ==
  IF items = <<>> \/ m = <<>> THEN m ELSE SubSeq(m, 1, Len(m) - 1)

RECURSIVE Remove(_, _)
Remove(m, items) ==
  IF items = <<>> THEN m
  ELSE Remove(MapDelete(m, KeyOf(Head(items), KeyName)), Tail(items))

ReverseEntries(m) == [i \in 1..Len(m) |-> m[Len(m) + 1 - i]]

\* (variant: the Map is not cleared before the entries are set again)
ReverseNoClear(m) == SetAll(m, ReverseEntries(m))

\* [...this.entries()].reverse(); this.clear(); set each entry again
Reverse(m) == SetAll(<<>>, ReverseEntries(m))

\* Math.random() takes a value j / Grain, 0 <= j < Grain.
Grain == MaxLen
Randoms == 0..(Grain - 1)

\* (variant: the drawn value stays in the scratch array)
RECURSIVE RandomNoSplice(_, _)
RandomNoSplice(arr, draws) ==
  IF draws = <<>> THEN <<>>
  ELSE <<arr[((Head(draws) * Len(arr)) \div Grain) + 1]>> \o RandomNoSplice(arr, Tail(draws))

\* arr.splice(Math.floor(Math.random() * arr.length), 1)[0], once per draw
RECURSIVE Random(_, _)
Random(arr, draws) ==
  IF draws = <<>> THEN <<>>
  ELSE LET i == ((Head(draws) * Len(arr)) \div Grain) + 1
           rest == [j \in 1..(Len(arr) - 1) |-> IF j < i THEN arr[j] ELSE arr[j + 1]]
       IN <<arr[i]>> \o Random(rest, Tail(draws))

Values(m) == [i \in 1..Len(m) |-> m[i][2]]

-----------------------------------------------------------------------------
\* Values handed back to the caller.

NoValue == [t |-> "none"]
Undefined == [t |-> "undefined"]
ItemValue(v) == [t |-> "item", v |-> v]
CollValue(c) == [t |-> "coll", c |-> c]
NumValue(n) == [t |-> "num", n |-> n]
ErrorValue(e) == [t |-> "error", e |-> e]

NoPromise == [state |-> "none", val |-> NoValue]
Fulfilled(v) == [state |-> "fulfilled", val |-> v]
Rejected(e) == [state |-> "rejected", val |-> ErrorValue(e)]
Pending == [state |-> "pending", val |-> NoValue]

ArrayValue(a) == [t |-> "array", a |-> a]

\* Arguments of a call.
NoArgs == [t |-> "none"]
FnArg(p) == [t |-> "fn", p |-> p]
ItemsArg(items) == [t |-> "items", items |-> items]
NewArgs(shape, values) == [t |-> "new", shape |-> shape, values |-> values]
RandomArgs(amount, draws) == [t |-> "random", amount |-> amount, draws |-> draws]
ThisValue == [t |-> "this"]

\* A call, as remembered when the next one is made.
NoCall == [op |-> "none", args |-> NoArgs, pre |-> <<>>]

\* (variant: the operation hands back the collection it was called on)
SpeciesThis(keyName) == [obj |-> 1, keyName |-> keyName, c |-> <<>>, touched |-> {}]

\* new this.constructor[Symbol.species]([], this.keyName): a fresh, empty collection
\* object (the collection the operations are called on is object 1).
Species(keyName) == [obj |-> 2, keyName |-> keyName, c |-> <<>>, touched |-> {}]

NoDerived == [obj |-> 0, keyName |-> KeyName, c |-> <<>>, touched |-> {}]

\* The value a transform resolves with; "truthy"/"falsy" is the truthiness of that value.
Mapped(r) == [t |-> "mapped", truthy |-> (r = "truthy")]

-----------------------------------------------------------------------------
\* The synchronous operations.  p[k] is the truthiness of fn(value, key, this) on
\* the entry of key k.

Predicates == [Keys -> BOOLEAN]

\* (variant: the iteration does not stop at the first match)
LastMatch(m, p) ==
  IF \E i \in 1..Len(m) : p[m[i][1]]
    THEN CHOOSE i \in 1..Len(m) : p[m[i][1]] /\ \A j \in (i + 1)..Len(m) : ~p[m[j][1]]
    ELSE 0

\* Index of the first entry fn is truthy on, 0 when there is none.
FirstMatch(m, p) ==
  IF \E i \in 1..Len(m) : p[m[i][1]]
    THEN CHOOSE i \in 1..Len(m) : p[m[i][1]] /\ \A j \in 1..(i - 1) : ~p[m[j][1]]
    ELSE 0

Find(m, p) == IF FirstMatch(m, p) = 0 THEN Undefined ELSE ItemValue(m[FirstMatch(m, p)][2])

\* The entries fn is invoked on by find: iteration stops at the first match.
FindVisited(m, p) == IF FirstMatch(m, p) = 0 THEN m ELSE SubSeq(m, 1, FirstMatch(m, p))

Filter(m, p) == SelectSeq(m, LAMBDA e : p[e[1]])

MapOp(m, p) == [i \in 1..Len(m) |-> <<m[i][1], Mapped(IF p[m[i][1]] THEN "truthy" ELSE "falsy")>>]

Sweep(m, p) == SelectSeq(m, LAMBDA e : ~p[e[1]])

\* typeof fn !== "function": an ordinary method throws to its caller.
CallSyncOp(o, ok, p) ==
  /\ pc = "idle"
  /\ o \in SyncOps
  /\ op' = o
  /\ callable' = ok
  /\ pc' = "done"
  /\ atCall' = coll
  /\ args' = IF ok THEN FnArg(p) ELSE NoArgs
  /\ prior' = NoCall
  /\ IF ~ok
       THEN /\ thrown' = "TypeError"
            /\ UNCHANGED <<coll, ret, calls, derived>>
       ELSE /\ thrown' = "none"
            /\ derived' = CASE o = "filter" -> [Species(KeyName) EXCEPT !.c = Filter(coll, p)]
                            [] o = "map" -> [Species(KeyName) EXCEPT !.c = MapOp(coll, p)]
                            [] OTHER -> derived
            /\ calls' = IF o = "find" THEN FindVisited(coll, p) ELSE coll
            /\ coll' = IF o = "sweep" THEN Sweep(coll, p) ELSE coll
            /\ ret' = CASE o = "find" -> Find(coll, p)
                        [] o = "filter" -> CollValue(Filter(coll, p))
                        [] o = "map" -> CollValue(MapOp(coll, p))
                        [] o = "sweep" -> NumValue(Len(coll) - Len(Sweep(coll, p)))
  /\ UNCHANGED <<promise, snap, next, inv, jobs, agg, results, previousSize,
                 seen, settled, mutations, immediate, swept>>

-----------------------------------------------------------------------------
\* The asynchronous operations.

\* What the synchronous part of one invocation of fn does to the collection it is
\* handed, and what other code does to it while the operation is suspended.
NoEffect == [kind |-> "none", item |-> Item(1, 0)]
Mutations == {[kind |-> "push", item |-> Item(k, 1)] : k \in Keys}
               \cup {[kind |-> "remove", item |-> Item(k, 0)] : k \in Keys}

Apply(m, e) ==
  CASE e.kind = "push" -> Push(m, <<e.item>>)
    [] e.kind = "remove" -> Remove(m, <<e.item>>)
    [] OTHER -> m

\* Outcome of calling fn on one entry: it throws before returning a promise (or
\* returns something without a then method, so that .then(...) throws), or returns
\* a promise that is still pending or is already settled.
StartOutcomes == {"throw", "pending", "truthy", "falsy", "reject"}
SettleOutcomes == {"truthy", "falsy", "reject"}

Unstarted == [st |-> "unstarted", r |-> "none"]

AllReacted(iv) == \A i \in DOMAIN iv : iv[i].st = "reacted"

\* [...this]
Spread(m) == m

\* (variant: iterates the live Map instead of the array)
NextItemLive(sn, m, i) == IF i <= Len(m) THEN m[i] ELSE sn[i]

\* The element of the array the i-th invocation is made for.
NextItem(sn, m, i) == sn[i]

\* (variant: hands fn a copy made when the operation was called)
ThisArgCopy(sn, m) == sn

\* The third argument of fn.
ThisArg(sn, m) == m

\* (variant: no check of fn)
TypeCheckNone(ok) == Pending

\* An async method: the throw becomes the rejection of the returned promise.
TypeCheckAsync(ok) == IF ok THEN Pending ELSE Rejected("TypeError")

\* Promise.any([]) is rejected at once, Promise.allSettled([]) fulfilled at once.
AggStart(o, sn) ==
  IF sn # <<>> THEN Pending
  ELSE IF o = "findAsync" THEN Rejected("AggregateError") ELSE Fulfilled(NoValue)

CallAsyncOp(o, ok) ==
  /\ pc = "idle"
  /\ o \in AsyncOps
  /\ op' = o
  /\ callable' = ok
  /\ atCall' = coll
  /\ promise' = TypeCheckAsync(ok)
  /\ IF ~ok
       THEN /\ pc' = "done"
            /\ UNCHANGED <<snap, next, inv, agg, previousSize>>
       ELSE /\ previousSize' = IF o = "sweepAsync" THEN Len(coll) ELSE 0
            /\ snap' = Spread(coll)
            /\ next' = 1
            /\ inv' = [i \in 1..Len(coll) |-> Unstarted]
            /\ agg' = IF coll = <<>> THEN AggStart(o, <<>>) ELSE NoPromise
            /\ pc' = IF coll = <<>> THEN "awaiting" ELSE "starting"
  /\ UNCHANGED <<coll, thrown, ret, jobs, results, calls, seen, settled, mutations,
                 args, derived, prior, immediate, swept>>

\* (variant: a new reaction job runs before the jobs already queued)
EnqueueFront(q, i) == <<i>> \o q

\* A reaction job is queued behind the jobs already queued.
Enqueue(q, i) == Append(q, i)

\* fn(item[1], item[0], this).then(...) for the next element of the array.
Start(e, out) ==
  /\ pc = "starting"
  /\ e \in Mutations \cup {NoEffect}
  /\ e # NoEffect => mutations < MaxMutations /\ Apply(coll, e) # coll
  /\ out \in StartOutcomes
  /\ calls' = Append(calls, NextItem(snap, coll, next))
  /\ seen' = ThisArg(snap, coll)
  /\ coll' = Apply(coll, e)
  /\ mutations' = IF e = NoEffect THEN mutations ELSE mutations + 1
  /\ IF out = "throw"
       THEN /\ promise' = Rejected("PredicateError")
            /\ pc' = "done"
            /\ UNCHANGED <<inv, jobs, settled, next, agg, immediate>>
       ELSE /\ inv' = [inv EXCEPT ![next] =
                         IF out = "pending" THEN [st |-> "pending", r |-> "none"]
                                            ELSE [st |-> "settled", r |-> out]]
            /\ jobs' = IF out = "pending" THEN jobs ELSE Enqueue(jobs, next)
            /\ immediate' = IF out = "pending" THEN immediate ELSE immediate \cup {next}
            /\ settled' = IF out = "pending" THEN settled ELSE Append(settled, next)
            /\ next' = next + 1
            /\ pc' = IF next = Len(snap) THEN "awaiting" ELSE "starting"
            /\ agg' = IF next = Len(snap) THEN AggStart(op, snap) ELSE agg
            /\ UNCHANGED promise
  /\ UNCHANGED <<op, callable, thrown, ret, snap, results, previousSize, atCall,
                 args, derived, prior, swept>>

\* (variant: the invocations still pending when the operation resolves are cancelled)
SettleCancelled(i, r) ==
  /\ pc = "awaiting"
  /\ i \in DOMAIN inv
  /\ inv[i].st = "pending"
  /\ r \in SettleOutcomes
  /\ inv' = [inv EXCEPT ![i] = [st |-> "settled", r |-> r]]
  /\ jobs' = Enqueue(jobs, i)
  /\ settled' = Append(settled, i)
  /\ UNCHANGED <<coll, op, callable, pc, thrown, ret, promise, snap, next, agg, results,
                 previousSize, atCall, calls, seen, mutations,
                 args, derived, prior, immediate, swept>>

\* The promise returned by an invocation settles; its reaction job is queued.
Settle(i, r) ==
  /\ pc \in {"awaiting", "done"}
  /\ i \in DOMAIN inv
  /\ inv[i].st = "pending"
  /\ r \in SettleOutcomes
  /\ inv' = [inv EXCEPT ![i] = [st |-> "settled", r |-> r]]
  /\ jobs' = Enqueue(jobs, i)
  /\ settled' = Append(settled, i)
  /\ UNCHANGED <<coll, op, callable, pc, thrown, ret, promise, snap, next, agg, results,
                 previousSize, atCall, calls, seen, mutations,
                 args, derived, prior, immediate, swept>>

\* findAsync's then callback: the derived promise is fulfilled with item[1] when r is
\* truthy and rejected otherwise (throw "e", or the rejection passed through).
FindThen(item, r) == IF r = "truthy" THEN [ok |-> TRUE, v |-> item[2]] ELSE [ok |-> FALSE, v |-> item[2]]

\* (variant: a later fulfilment replaces an earlier one)
AnyStepLast(a, p, iv) ==
  IF p.ok THEN Fulfilled(ItemValue(p.v))
  ELSE IF a.state # "pending" THEN a
  ELSE IF AllReacted(iv) THEN Rejected("AggregateError")
  ELSE a

\* Promise.any: the first fulfilled element fulfils it; all rejected rejects it.
AnyStep(a, p, iv) ==
  IF a.state # "pending" THEN a
  ELSE IF p.ok THEN Fulfilled(ItemValue(p.v))
  ELSE IF AllReacted(iv) THEN Rejected("AggregateError")
  ELSE a

\* (variant: fulfilled by the first element that settles, as Promise.race is)
AllSettledFirst(a, iv) == IF a.state # "pending" THEN a ELSE Fulfilled(NoValue)

\* Promise.allSettled: fulfilled once every element has settled either way.
AllSettledStep(a, iv) ==
  IF a.state # "pending" THEN a
  ELSE IF AllReacted(iv) THEN Fulfilled(NoValue)
  ELSE a

\* (variant: the result of fn is not tested)
FilterThenAlways(res, item, r) == IF r = "reject" THEN res ELSE MapSet(res, item[1], item[2])

\* r ? results.set(item[0], item[1]) : null
FilterThen(res, item, r) == IF r = "truthy" THEN MapSet(res, item[1], item[2]) ELSE res

\* (variant: the new entry is put first)
MapThenFront(res, item, r) ==
  IF r = "reject" THEN res ELSE <<(<<item[1], Mapped(r)>>)>> \o MapDelete(res, item[1])

\* coll.set(item[0], v)
MapThen(res, item, r) == IF r = "reject" THEN res ELSE MapSet(res, item[1], Mapped(r))

\* (variant: the result of fn is not tested)
SweepThenAlways(m, item, r) == IF r = "reject" THEN m ELSE MapDelete(m, item[1])

\* passed ? this.delete(item[0]) : null
SweepThen(m, item, r) == IF r = "truthy" THEN MapDelete(m, item[1]) ELSE m

\* The reaction job at the head of the queue runs: the then callback of one
\* invocation, and with it the element's report to the aggregate promise.
RunJob ==
  /\ pc \in {"awaiting", "done"}
  /\ jobs # <<>>
  /\ LET i == Head(jobs)
         item == snap[i]
         r == inv[i].r
         inv1 == [inv EXCEPT ![i].st = "reacted"]
     IN /\ jobs' = Tail(jobs)
        /\ inv' = inv1
        /\ results' = CASE op = "filterAsync" -> FilterThen(results, item, r)
                        [] op = "mapAsync" -> MapThen(results, item, r)
                        [] OTHER -> results
        /\ coll' = IF op = "sweepAsync" THEN SweepThen(coll, item, r) ELSE coll
        /\ swept' = IF op = "sweepAsync" THEN swept + Len(coll) - Len(SweepThen(coll, item, r))
                                         ELSE swept
        /\ agg' = IF op = "findAsync" THEN AnyStep(agg, FindThen(item, r), inv1)
                                      ELSE AllSettledStep(agg, inv1)
  /\ UNCHANGED <<op, callable, pc, thrown, ret, promise, snap, next, previousSize,
                 atCall, calls, seen, settled, mutations, args, derived, prior, immediate>>

\* (variant: no catch, the AggregateError reaches the caller)
CatchNone(a) == a.val

\* .catch(() => undefined)
Catch(a) == IF a.state = "rejected" THEN Undefined ELSE a.val

ReturnValue(o, a, res, prev, m) ==
  CASE o = "findAsync" -> Catch(a)
    [] o = "sweepAsync" -> NumValue(prev - Len(m))
    [] OTHER -> CollValue(res)

\* The await is over: the method returns and its promise is fulfilled.
Return ==
  /\ pc = "awaiting"
  /\ agg.state \in {"fulfilled", "rejected"}
  /\ promise' = Fulfilled(ReturnValue(op, agg, results, previousSize, coll))
  /\ pc' = "done"
  /\ UNCHANGED <<coll, op, callable, thrown, ret, snap, next, inv, jobs, agg, results,
                 previousSize, atCall, calls, seen, settled, mutations,
                 args, derived, prior, immediate, swept>>

\* (variant: a lock makes the other caller's mutation wait for the traversal)
InterfereLocked(e) ==
  /\ pc = "awaiting"
  /\ e \in Mutations
  /\ mutations < MaxMutations
  /\ Apply(coll, e) # coll
  /\ mutations' = mutations + 1
  /\ UNCHANGED <<coll, op, callable, pc, thrown, ret, promise, snap, next, inv, jobs, agg,
                 results, previousSize, atCall, calls, seen, settled,
                 args, derived, prior, immediate, swept>>

\* While the operation is suspended other code (another caller, or an invocation of
\* fn continuing after its own await) pushes to or removes from the collection.
Interfere(e) ==
  /\ pc = "awaiting"
  /\ e \in Mutations
  /\ mutations < MaxMutations
  /\ Apply(coll, e) # coll
  /\ coll' = Apply(coll, e)
  /\ mutations' = mutations + 1
  /\ UNCHANGED <<op, callable, pc, thrown, ret, promise, snap, next, inv, jobs, agg,
                 results, previousSize, atCall, calls, seen, settled,
                 args, derived, prior, immediate, swept>>

-----------------------------------------------------------------------------

Init ==
  /\ \E n \in 0..MaxLen : coll = Construct([i \in 1..n |-> Item(i, 0)])
  /\ op = "none"
  /\ callable = TRUE
  /\ pc = "idle"
  /\ thrown = "none"
  /\ ret = NoValue
  /\ promise = NoPromise
  /\ snap = <<>>
  /\ next = 1
  /\ inv = <<>>
  /\ jobs = <<>>
  /\ agg = NoPromise
  /\ results = <<>>
  /\ previousSize = 0
  /\ atCall = <<>>
  /\ calls = <<>>
  /\ seen = <<>>
  /\ settled = <<>>
  /\ mutations = 0
  /\ args = NoArgs
  /\ derived = NoDerived
  /\ prior = NoCall
  /\ immediate = {}
  /\ swept = 0

Next ==
  \/ \E o \in SyncOps, ok \in BOOLEAN, p \in Predicates : CallSyncOp(o, ok, p)
  \/ \E o \in AsyncOps, ok \in BOOLEAN : CallAsyncOp(o, ok)
  \/ \E e \in Mutations \cup {NoEffect}, out \in StartOutcomes : Start(e, out)
  \/ \E i \in 1..MaxLen, r \in SettleOutcomes : Settle(i, r)
  \/ RunJob
  \/ Return
  \/ \E e \in Mutations : Interfere(e)

Spec == Init /\ [][Next]_vars

\* The synchronous section of a call runs on, every promise an invocation returned
\* settles, the reaction jobs are run, and the continuation after the await runs.
Fairness ==
  /\ WF_vars(\E e \in Mutations \cup {NoEffect}, out \in StartOutcomes : Start(e, out))
  /\ WF_vars(\E i \in 1..MaxLen, r \in SettleOutcomes : Settle(i, r))
  /\ WF_vars(RunJob)
  /\ WF_vars(Return)

FairSpec == Spec /\ Fairness

-----------------------------------------------------------------------------
\* The synchronous life of a collection: it is constructed, then called again and
\* again, each call returning before the next is made.

\* No asynchronous operation is running.
NoTraversal ==
  UNCHANGED <<callable, promise, snap, next, inv, jobs, agg, results, previousSize,
              seen, settled, mutations, immediate, swept>>

\* Every entry is stored under the id of an item.
Keyed(m) == \A i \in 1..Len(m) : m[i][1] \in Keys

\* What the caller remembers of the call that has just returned: a push of one item
\* and a reverse, for the call that undoes them.
Earlier ==
  IF (op = "push" /\ Len(args.items) = 1) \/ op = "reverse"
    THEN [op |-> op, args |-> args, pre |-> atCall]
    ELSE NoCall

\* The constructor or a call has returned and the caller goes on to its next call.
\* The calls that follow are made on collections keyed by the ids of their items.
NextCall ==
  /\ pc \in {"new", "done"}
  /\ op \notin AsyncOps
  /\ derived.obj = 0
  /\ Keyed(coll)
  /\ pc' = "idle"
  /\ prior' = Earlier
  /\ op' = "none"
  /\ args' = NoArgs
  /\ atCall' = <<>>
  /\ ret' = NoValue
  /\ calls' = <<>>
  /\ thrown' = "none"
  /\ callable' = TRUE
  /\ UNCHANGED <<coll, derived, promise, snap, next, inv, jobs, agg, results,
                 previousSize, seen, settled, mutations, immediate, swept>>

\* The remembered call, when it is the one that call o undoes.
Undone(o) == IF prior.op = o THEN prior ELSE NoCall

\* Arrays the constructor, push and remove are given.  One push is given at most
\* as many items as there are objects of one key.
ValueArrays(S, n) == UNION {[1..l -> S] : l \in 0..n}

DoPush(items) ==
  /\ pc = "idle"
  /\ op' = "push"
  /\ args' = ItemsArg(items)
  /\ atCall' = coll
  /\ prior' = NoCall
  /\ coll' = Push(coll, items)
  /\ ret' = ThisValue
  /\ pc' = "done"
  /\ thrown' = "none"
  /\ calls' = <<>>
  /\ UNCHANGED derived
  /\ NoTraversal

DoRemove(items) ==
  /\ pc = "idle"
  /\ op' = "remove"
  /\ args' = ItemsArg(items)
  /\ atCall' = coll
  /\ prior' = Undone("push")
  /\ coll' = Remove(coll, items)
  /\ ret' = ThisValue
  /\ pc' = "done"
  /\ thrown' = "none"
  /\ calls' = <<>>
  /\ UNCHANGED derived
  /\ NoTraversal

DoReverse ==
  /\ pc = "idle"
  /\ op' = "reverse"
  /\ args' = NoArgs
  /\ atCall' = coll
  /\ prior' = Undone("reverse")
  /\ coll' = Reverse(coll)
  /\ ret' = ThisValue
  /\ pc' = "done"
  /\ thrown' = "none"
  /\ calls' = <<>>
  /\ UNCHANGED derived
  /\ NoTraversal

\* draws: the values Math.random() returns, one per element of the result.
DoRandom(amount, draws) ==
  /\ pc = "idle"
  /\ Len(draws) = IF amount < Len(coll) THEN amount ELSE Len(coll)
  /\ op' = "random"
  /\ args' = RandomArgs(amount, draws)
  /\ atCall' = coll
  /\ prior' = NoCall
  /\ ret' = ArrayValue(IF coll = <<>> THEN <<>> ELSE Random(Values(coll), draws))
  /\ pc' = "done"
  /\ thrown' = "none"
  /\ calls' = <<>>
  /\ UNCHANGED <<coll, derived>>
  /\ NoTraversal

\* What a caller does later to the source collection or to the collection filter /
\* map returned.
LaterMutations ==
  Mutations \cup {[kind |-> "reverse"]} \cup {[kind |-> "sweep", p |-> p] : p \in Predicates}

ApplyLater(m, e) ==
  CASE e.kind = "reverse" -> Reverse(m)
    [] e.kind = "sweep" -> Sweep(m, e.p)
    [] OTHER -> Apply(m, e)

\* One object has one state: a mutation made through either name of the same
\* object is seen through both.
LaterMutate(target, e) ==
  /\ pc = "done"
  /\ derived.obj # 0
  /\ derived.touched = {}
  /\ LET before == IF target = "source" THEN coll ELSE derived.c
         after == ApplyLater(before, e)
         same == derived.obj = 1
     IN /\ after # before
        /\ coll' = IF target = "source" \/ same THEN after ELSE coll
        /\ derived' = [derived EXCEPT !.c = IF target = "derived" \/ same THEN after ELSE @,
                                      !.touched = {target}]
  /\ UNCHANGED <<op, args, atCall, prior, ret, pc, thrown, calls>>
  /\ NoTraversal

SyncInit ==
  /\ \E shape \in Shapes :
       \E values \in ValueArrays(Items, MaxLen + 1) \cup ValueArrays(Pairs, MaxLen + 1) :
         /\ shape = "iterable" => values \in ValueArrays(Pairs, MaxLen + 1)
         /\ coll = Constructor(shape, values)
         /\ args = NewArgs(shape, values)
  /\ op = "new"
  /\ callable = TRUE
  /\ pc = "new"
  /\ thrown = "none"
  /\ ret = NoValue
  /\ promise = NoPromise
  /\ snap = <<>>
  /\ next = 1
  /\ inv = <<>>
  /\ jobs = <<>>
  /\ agg = NoPromise
  /\ results = <<>>
  /\ previousSize = 0
  /\ atCall = <<>>
  /\ calls = <<>>
  /\ seen = <<>>
  /\ settled = <<>>
  /\ mutations = 0
  /\ derived = NoDerived
  /\ prior = NoCall
  /\ immediate = {}
  /\ swept = 0

SyncNext ==
  \/ \E items \in ValueArrays(Items, Cardinality(Tags)) : DoPush(items)
  \/ \E item \in Items : DoRemove(<<item>>)
  \/ DoReverse
  \/ \E amount \in 0..(MaxLen + 2), draws \in ValueArrays(Randoms, MaxLen + 1) :
       DoRandom(amount, draws)
  \/ \E o \in SyncOps, ok \in BOOLEAN, p \in Predicates : CallSyncOp(o, ok, p)
  \/ \E target \in {"source", "derived"}, e \in LaterMutations : LaterMutate(target, e)
  \/ NextCall

SpecSync == SyncInit /\ [][SyncNext]_vars

-----------------------------------------------------------------------------
\* Vocabulary of the properties.

IsAsync == op \in AsyncOps
AllKinds == {"filterAsync", "mapAsync", "sweepAsync"}

\* Position of x in a sequence without repetitions.
Pos(q, x) == CHOOSE j \in 1..Len(q) : q[j] = x

\* Index in the collection at the call of the entry of key k.
IndexAtCall(k) == CHOOSE i \in 1..Len(atCall) : atCall[i][1] = k

\* Indices whose invocation has settled with a truthy result, and the first of them.
TruthySettled == {j \in 1..Len(settled) : inv[settled[j]].r = "truthy"}
FirstTruthy == settled[CHOOSE j \in TruthySettled : \A h \in TruthySettled : j <= h]

\* Every invocation was made and its promise has settled falsy or rejected.
NoneTruthy ==
  /\ Len(calls) = Len(atCall)
  /\ \A i \in DOMAIN inv : inv[i].st \in {"settled", "reacted"} /\ inv[i].r \in {"falsy", "reject"}

SetOf(q) == {q[i] : i \in 1..Len(q)}

IsPrefix(a, b) == Len(a) <= Len(b) /\ \A i \in 1..Len(a) : a[i] = b[i]

-----------------------------------------------------------------------------
\* C1: whenever findAsync has resolved and some invocation has settled truthy, the
\* value it resolved with is the value of the entry whose invocation was the first
\* to settle truthy, whatever its position, whatever is still pending and whatever
\* settles afterwards; and once the reaction of a truthy invocation has run the
\* suspended findAsync can resume, pending invocations or not.
C1_FindAsyncFirstTruthy ==
  op = "findAsync"
    => /\ (promise.state = "fulfilled" /\ TruthySettled # {})
            => promise.val = ItemValue(atCall[FirstTruthy][2])
       /\ (pc = "awaiting" /\ \E i \in DOMAIN inv : inv[i].st = "reacted" /\ inv[i].r = "truthy")
            => ENABLED Return

\* findAsync resolved with the second entry while the first invocation is pending.
C1_Witness ==
  /\ op = "findAsync"
  /\ Len(inv) = 2
  /\ promise = Fulfilled(ItemValue(atCall[2][2]))
  /\ inv[1].st = "pending"

\* C2: when every invocation of findAsync's callable predicate resolved falsy or
\* rejected (in any mix, none at all for an empty collection), the promise is never
\* rejected, and once all reactions have run it is resolvable, and resolved only
\* with undefined.
C2_FindAsyncUndefined ==
  (op = "findAsync" /\ callable /\ NoneTruthy)
    => /\ promise.state # "rejected"
       /\ promise.state = "fulfilled" => promise.val = Undefined
       /\ AllReacted(inv) => (promise = Fulfilled(Undefined) \/ (pc = "awaiting" /\ ENABLED Return))

\* findAsync resolved with undefined after one rejection and one falsy result.
C2_Witness ==
  /\ op = "findAsync"
  /\ Len(inv) = 2
  /\ inv[1].r = "reject"
  /\ inv[2].r = "falsy"
  /\ promise = Fulfilled(Undefined)

\* C3: the collection filterAsync resolves with holds exactly the entries (key and
\* value as they were at the call) whose invocation fulfilled truthy; the one
\* mapAsync resolves with holds, for exactly the keys whose invocation fulfilled,
\* the value the transform resolved with.
C3_AsyncResultContents ==
  /\ (op = "filterAsync" /\ promise.state = "fulfilled")
       => /\ SetOf(promise.val.c) = {atCall[i] : i \in {j \in DOMAIN inv : inv[j].r = "truthy"}}
          /\ Len(promise.val.c) = Cardinality(SetOf(promise.val.c))
  /\ (op = "mapAsync" /\ promise.state = "fulfilled")
       => /\ SetOf(promise.val.c) =
               {<<atCall[i][1], Mapped(inv[i].r)>> : i \in {j \in DOMAIN inv : inv[j].r # "reject"}}
          /\ Len(promise.val.c) = Cardinality(SetOf(promise.val.c))

\* filterAsync resolved after a truthy, and a rejected invocation, and the entry it kept
\* had meanwhile been replaced in the source.
C3_Witness ==
  /\ op = "filterAsync"
  /\ promise.state = "fulfilled"
  /\ Len(inv) = 2
  /\ inv[1].r = "truthy"
  /\ inv[2].r = "reject"
  /\ coll # atCall
  /\ promise.val.c = <<atCall[1]>>

\* C4: filterAsync, mapAsync and sweepAsync have not resolved while an invocation
\* they started is pending: when the promise is fulfilled every invocation has settled
\* and its reaction has run, and while one is pending the await cannot end.
C4_ResolvesAfterAllSettled ==
  (op \in AllKinds /\ callable)
    => /\ promise.state = "fulfilled" => AllReacted(inv)
       /\ (\E i \in DOMAIN inv : inv[i].st = "pending") => ~ENABLED Return

\* sweepAsync resolved after both invocations settled, one by rejection.
C4_Witness ==
  /\ op = "sweepAsync"
  /\ promise.state = "fulfilled"
  /\ Len(inv) = 2
  /\ inv[1].r = "reject"
  /\ inv[2].r = "truthy"

\* C5: in the collection filterAsync or mapAsync resolves with, an entry precedes
\* another exactly when its invocation settled first.
C5_ResultInSettlementOrder ==
  (op \in {"filterAsync", "mapAsync"} /\ promise.state = "fulfilled")
    => \A a, b \in 1..Len(promise.val.c) :
         a < b => Pos(settled, IndexAtCall(promise.val.c[a][1]))
                    < Pos(settled, IndexAtCall(promise.val.c[b][1]))

\* The second entry of the source settled first and is first in mapAsync's result.
C5_Witness ==
  /\ op = "mapAsync"
  /\ promise.state = "fulfilled"
  /\ Len(inv) = 2
  /\ settled = <<2, 1>>
  /\ Len(promise.val.c) = 2
  /\ promise.val.c[1][1] = atCall[2][1]
  /\ promise.val.c[2][1] = atCall[1][1]

\* C6: when nothing else mutated the collection during the traversal, sweepAsync leaves
\* exactly the entries whose invocation did not fulfil truthy, in their original order,
\* and resolves with the number of entries it deleted.
C6_SweepAsyncExact ==
  (op = "sweepAsync" /\ promise.state = "fulfilled" /\ mutations = 0)
    => /\ coll = SelectSeq(atCall, LAMBDA e : inv[IndexAtCall(e[1])].r # "truthy")
       /\ promise.val = NumValue(Cardinality({i \in DOMAIN inv : inv[i].r = "truthy"}))
       /\ promise.val = NumValue(Len(atCall) - Len(coll))

\* The second invocation settled first (rejected), the first one truthy: one deletion.
C6_Witness ==
  /\ op = "sweepAsync"
  /\ promise = Fulfilled(NumValue(1))
  /\ mutations = 0
  /\ settled = <<2, 1>>
  /\ inv[1].r = "truthy"
  /\ inv[2].r = "reject"
  /\ coll = <<atCall[2]>>

\* C7: an asynchronous operation invokes fn on the entries the collection held at the
\* call, in their order, once each and on nothing else; when it first suspends all
\* these invocations have been made, and until then no reaction has run.
C7_InvokedOncePerEntry ==
  (IsAsync /\ callable)
    => /\ IsPrefix(calls, atCall)
       /\ (pc = "awaiting" \/ promise.state = "fulfilled") => calls = atCall
       /\ pc = "starting" => \A i \in DOMAIN inv : inv[i].st # "reacted"

\* The operation is suspended with both invocations made, and an entry pushed after
\* the call was not visited.
C7_Witness ==
  /\ IsAsync
  /\ pc = "awaiting"
  /\ Len(inv) = 2
  /\ calls = atCall
  /\ Len(coll) = 3

\* C8 (as stated): every invocation receives the collection as it was at the call.
C8_SameSnapshot ==
  (IsAsync /\ calls # <<>>) => seen = atCall

\* C8 (amended): every invocation receives the live collection, as it is at the
\* moment the invocation starts, with the mutations of the invocations before it.
C8_LiveCollection ==
  [][(pc = "starting" /\ Len(calls') = Len(calls) + 1) => seen' = coll]_vars

\* The second invocation received a collection that the first one had mutated.
C8_Witness ==
  /\ IsAsync
  /\ Len(calls) = 2
  /\ seen # atCall

\* C9 (as stated): a non-callable argument makes every operation throw to its caller.
C9_ThrowsSynchronously ==
  (op # "none" /\ ~callable) => (thrown = "TypeError" /\ calls = <<>> /\ coll = atCall)

\* C9 (amended): with a non-callable argument find, filter, map and sweep throw the
\* TypeError to the caller, and the four asynchronous operations return a promise
\* rejected with it; either way no entry is visited, no invocation is started and the
\* collection is unchanged.
C9_TypeError ==
  (op # "none" /\ ~callable)
    => /\ calls = <<>>
       /\ coll = atCall
       /\ pc = "done"
       /\ op \in SyncOps => (thrown = "TypeError" /\ promise = NoPromise /\ ret = NoValue)
       /\ op \in AsyncOps => (thrown = "none" /\ promise = Rejected("TypeError"))

\* sweepAsync was called with a non-callable argument on a collection of two entries.
C9_Witness ==
  /\ op = "sweepAsync"
  /\ ~callable
  /\ Len(coll) = 2
  /\ promise = Rejected("TypeError")

\* C10 (as stated): with a callable argument the promise of an asynchronous operation
\* is never rejected.
C10_AlwaysFulfils ==
  (IsAsync /\ callable) => promise.state # "rejected"

-----------------------------------------------------------------------------
\* Vocabulary of the properties of the synchronous operations.

ValueAt(m, k) == m[CHOOSE i \in 1..Len(m) : m[i][1] = k][2]

\* The value array vs holds entries, and the collection m holds them as given: one
\* entry per distinct key, under each key the value of its last occurrence, the keys
\* in the order of their first occurrence.
UsedDirectly(vs, m) ==
  LET FirstOcc(k) == CHOOSE i \in 1..Len(vs) :
                       vs[i].first = k /\ \A j \in 1..(i - 1) : vs[j].first # k
  IN /\ Len(m) = Cardinality({vs[i].first : i \in 1..Len(vs)})
     /\ \A i \in 1..Len(vs) :
          (\A j \in (i + 1)..Len(vs) : vs[j].first # vs[i].first)
            => (MapHas(m, vs[i].first) /\ ValueAt(m, vs[i].first) = vs[i].second)
     /\ \A a, b \in 1..Len(m) : a < b => FirstOcc(m[a][1]) < FirstOcc(m[b][1])

\* Every element of vs was stored whole under the key undefined: the last one is left.
StoredWhole(vs, m) ==
  m = IF vs = <<>> THEN <<>> ELSE << <<UndefinedKey, vs[Len(vs)]>> >>

PairsGiven == op = "new" /\ \A i \in 1..Len(args.values) : args.values[i] \in Pairs

\* C11 (as stated): a collection constructed from a sequence of key/value pairs has
\* one entry per distinct key supplied, each key maps to the value of its last
\* occurrence, and the keys are ordered by first occurrence.
C11_PairsUsedDirectly ==
  PairsGiven => UsedDirectly(args.values, coll)

\* C11 (amended): pairs are used directly (one entry per distinct key, last write
\* wins, keys ordered by first occurrence) only when they are supplied in an iterable
\* that is not an array; the elements of an array of pairs are taken as raw values,
\* each stored whole under the key undefined, so the last pair is the only entry.
C11_PairsDirectOnlyFromIterable ==
  PairsGiven => IF args.shape = "array" THEN StoredWhole(args.values, coll)
                                        ELSE UsedDirectly(args.values, coll)

\* Three pairs in an iterable, the third repeating the key of the first with another
\* value: two entries.
C11_Witness ==
  /\ PairsGiven
  /\ args.shape = "iterable"
  /\ Len(args.values) = MaxLen + 1
  /\ args.values[1].first = args.values[MaxLen + 1].first
  /\ args.values[1] # args.values[MaxLen + 1]
  /\ Len(coll) = MaxLen

\* The items of the array that carry key k, and the last of them.
LastWith(items, k) ==
  items[CHOOSE i \in 1..Len(items) :
          items[i].id = k /\ \A j \in (i + 1)..Len(items) : items[j].id # k]

FirstIndex(items, k) ==
  CHOOSE i \in 1..Len(items) : items[i].id = k /\ \A j \in 1..(i - 1) : items[j].id # k

\* C12: after any sequence of calls, push(...items) leaves under the key of every
\* pushed item the last item pushed with that key; a key that existed keeps its
\* position, the new keys are appended at the end in the order they were pushed, and
\* every other entry is unchanged and stays where it was.
C12_PushUpserts ==
  (op = "push" /\ pc = "done")
    => LET items == args.items
           pushed == {items[i].id : i \in 1..Len(items)}
           added == {k \in pushed : ~MapHas(atCall, k)}
       IN /\ \A k \in pushed : MapHas(coll, k) /\ ValueAt(coll, k) = LastWith(items, k)
          /\ Len(coll) = Len(atCall) + Cardinality(added)
          /\ \A i \in 1..Len(atCall) :
               /\ coll[i][1] = atCall[i][1]
               /\ atCall[i][1] \notin pushed => coll[i] = atCall[i]
          /\ \A a, b \in (Len(atCall) + 1)..Len(coll) :
               a < b => FirstIndex(items, coll[a][1]) < FirstIndex(items, coll[b][1])

\* Two different objects of the key of the first of two entries are pushed in one
\* call: the first entry holds the second object and the other entry is as it was.
C12_Witness ==
  /\ op = "push"
  /\ pc = "done"
  /\ Len(atCall) = 2
  /\ Len(args.items) = 2
  /\ args.items[1].id = atCall[1][1]
  /\ args.items[2].id = atCall[1][1]
  /\ args.items[1] # args.items[2]
  /\ atCall[1][2] = args.items[1]
  /\ coll = <<<<atCall[1][1], args.items[2]>>, atCall[2]>>

\* remove(item) has returned, and the call before it was push(item) of the same item.
PushThenRemove ==
  /\ op = "remove"
  /\ pc = "done"
  /\ prior.op = "push"
  /\ prior.args.items = args.items

KeySet(m) == {m[i][1] : i \in 1..Len(m)}

\* C13 (as stated): push(item) followed by remove(item) restores the size the
\* collection had before the push and removes exactly the key of the item.
C13_SizeRestored ==
  PushThenRemove
    => /\ Len(coll) = Len(prior.pre)
       /\ KeySet(coll) = KeySet(atCall) \ {args.items[1].id}

\* C13 (amended): push(item) followed by remove(item) leaves the collection as it was
\* before the push without the entry of the item's key: the size is the one before
\* the push when the key was absent then, and one less when it was present.
C13_KeyRemoved ==
  PushThenRemove
    => LET k == args.items[1].id
       IN /\ coll = SelectSeq(prior.pre, LAMBDA e : e[1] # k)
          /\ KeySet(coll) = KeySet(atCall) \ {k}
          /\ Len(coll) = IF MapHas(prior.pre, k) THEN Len(prior.pre) - 1 ELSE Len(prior.pre)

\* An object was pushed whose key the first of two entries already had, then
\* removed: one entry is left.
C13_Witness ==
  /\ PushThenRemove
  /\ Len(prior.pre) = 2
  /\ prior.pre[1][1] = args.items[1].id
  /\ prior.pre[1][2] # args.items[1]
  /\ coll = <<prior.pre[2]>>

\* find has returned a value.
FindReturned == op = "find" /\ pc = "done" /\ thrown = "none"

\* C14: find returns the value of the first entry, in insertion order, the predicate
\* is truthy on, and the predicate is invoked on the entries up to that one and on
\* no later entry; it returns undefined, after invoking the predicate on every entry,
\* when no entry matches, also on an empty collection; the collection is unchanged.
C14_FindFirst ==
  FindReturned
    => LET p == args.p
           hits == {i \in 1..Len(atCall) : p[atCall[i][1]]}
       IN /\ coll = atCall
          /\ IsPrefix(calls, atCall)
          /\ hits = {} => (ret = Undefined /\ calls = atCall)
          /\ \A i \in hits :
               (\A j \in hits : i <= j) => (ret = ItemValue(atCall[i][2]) /\ Len(calls) = i)

\* Of three entries the predicate is falsy on the first and truthy on the other two:
\* find returned the second after two invocations.
C14_Witness ==
  /\ FindReturned
  /\ Len(atCall) = 3
  /\ ~args.p[atCall[1][1]]
  /\ args.p[atCall[2][1]]
  /\ args.p[atCall[3][1]]
  /\ ret = ItemValue(atCall[2][2])
  /\ Len(calls) = 2

\* find returned undefined on an empty collection.
C14_WitnessEmpty ==
  FindReturned /\ atCall = <<>> /\ ret = Undefined

\* filter or map has returned a collection.
DerivedReturned == op \in {"filter", "map"} /\ pc = "done" /\ thrown = "none"

\* b holds exactly the entries of a whose key is in K, in the order they have in a.
IsSelection(b, a, K) ==
  /\ Len(b) = Cardinality(KeySet(a) \cap K)
  /\ \A i \in 1..Len(b) : b[i][1] \in K /\ MapHas(a, b[i][1]) /\ b[i][2] = ValueAt(a, b[i][1])
  /\ \A i, j \in 1..Len(b) :
       i < j => (CHOOSE x \in 1..Len(a) : a[x][1] = b[i][1])
                  < (CHOOSE y \in 1..Len(a) : a[y][1] = b[j][1])

\* C15: filter and map return a new collection object with the key field of the
\* source; filter's holds exactly the entries the predicate is truthy on, map's every
\* key of the source with the value of the transform, both in source insertion
\* order; the source is left as it was, and a later push, remove, sweep or reverse on
\* one of the two collections does not change the other.
C15_DerivedIndependent ==
  DerivedReturned
    => LET p == args.p
       IN /\ derived.obj \notin {0, 1}
          /\ derived.keyName = KeyName
          /\ ret.t = "coll"
          /\ op = "filter" => IsSelection(ret.c, atCall, {k \in Keys : p[k]})
          /\ op = "map" =>
               /\ Len(ret.c) = Len(atCall)
               /\ \A i \in 1..Len(atCall) :
                    /\ ret.c[i][1] = atCall[i][1]
                    /\ ret.c[i][2] = Mapped(IF p[atCall[i][1]] THEN "truthy" ELSE "falsy")
          /\ "source" \notin derived.touched => coll = atCall
          /\ "derived" \notin derived.touched => derived.c = ret.c

\* filter kept one of two entries, then the source was mutated: the returned
\* collection still holds what filter put in it.
C15_Witness ==
  /\ DerivedReturned
  /\ op = "filter"
  /\ Len(atCall) = 2
  /\ Len(ret.c) = 1
  /\ derived.touched = {"source"}
  /\ coll # atCall
  /\ derived.c = ret.c

\* map returned a collection of two entries, then that collection was mutated: the
\* source is as it was.
C15_WitnessMap ==
  /\ DerivedReturned
  /\ op = "map"
  /\ Len(atCall) = 2
  /\ derived.touched = {"derived"}
  /\ derived.c # ret.c
  /\ coll = atCall

\* C16: reverse leaves in the collection the entries it held, each key with its
\* value, in exactly the reverse of the order they had before the call; a second
\* reverse right after the first restores the order before the first.
C16_ReverseInPlace ==
  (op = "reverse" /\ pc = "done")
    => /\ Len(coll) = Len(atCall)
       /\ \A i \in 1..Len(coll) : coll[i] = atCall[Len(atCall) + 1 - i]
       /\ prior.op = "reverse" => coll = prior.pre

\* A collection of three entries was reversed twice: it is in the order it had, which
\* is not the order between the two calls.
C16_Witness ==
  /\ op = "reverse"
  /\ pc = "done"
  /\ prior.op = "reverse"
  /\ Len(prior.pre) = 3
  /\ atCall # prior.pre
  /\ coll = prior.pre

\* C17: whatever Math.random() returns, random(n) on a collection of k entries
\* returns min(n, k) values, each the value of a different entry, returns the empty
\* array on an empty collection, and leaves the collection as it was.
C17_RandomDistinct ==
  (op = "random" /\ pc = "done")
    => /\ ret.t = "array"
       /\ Len(ret.a) = IF args.amount < Len(atCall) THEN args.amount ELSE Len(atCall)
       /\ \E f \in [1..Len(ret.a) -> 1..Len(atCall)] :
            /\ \A i, j \in 1..Len(ret.a) : i # j => f[i] # f[j]
            /\ \A i \in 1..Len(ret.a) : ret.a[i] = atCall[f[i]][2]
       /\ atCall = <<>> => ret.a = <<>>
       /\ coll = atCall

\* More values were asked for than the three entries the collection holds: three
\* values came back, not in the order of the collection.
C17_Witness ==
  /\ op = "random"
  /\ pc = "done"
  /\ Len(atCall) = 3
  /\ args.amount > 3
  /\ Len(ret.a) = 3
  /\ ret.a[1] # atCall[1][2]
  /\ coll = atCall

-----------------------------------------------------------------------------
\* Ties and interference in the asynchronous operations.

\* The reaction job at the head of the queue fulfils findAsync's Promise.any.
AnyFulfils == op = "findAsync" /\ agg.state = "pending" /\ agg'.state = "fulfilled"

\* The truthy invocations whose reaction jobs are queued together: they settled
\* before any of them was reacted to, that is, in the same tick.
Tied == {j \in SetOf(jobs) : inv[j].r = "truthy"}

\* The truthiness of fn on the entry of each key, as the invocations settled.
Outcomes == [k \in Keys |-> \E i \in 1..Len(snap) : snap[i][1] = k /\ inv[i].r = "truthy"]

\* C18 (as stated): of the invocations that settle truthy in the same tick, the one
\* submitted first, the earliest in insertion order, gives findAsync its value.
C18_FirstSubmittedWins ==
  [][AnyFulfils => \A j \in Tied : Head(jobs) <= j]_vars

\* C18 (amended): of the invocations that settle truthy in the same tick, the one
\* that settled first gives findAsync its value; among the invocations whose promise
\* was already settled when fn returned it, that is the earliest in insertion order,
\* and when every invocation is so, findAsync resolves with the value find returns
\* for the same outcomes.
C18_FirstSettledWins ==
  [][/\ AnyFulfils =>
          /\ \A j \in Tied : Pos(settled, Head(jobs)) <= Pos(settled, j)
          /\ Head(jobs) \in immediate => \A j \in Tied \cap immediate : Head(jobs) <= j
          /\ agg'.val = ItemValue(snap[Head(jobs)][2])
     /\ (op = "findAsync" /\ pc = "awaiting" /\ pc' = "done"
           /\ immediate = 1..Len(snap))
          => promise' = Fulfilled(Find(atCall, Outcomes))
    ]_vars

\* Both invocations returned a promise already fulfilled with a truthy value:
\* findAsync resolved with the first entry.
C18_Witness ==
  /\ op = "findAsync"
  /\ Len(inv) = 2
  /\ immediate = {1, 2}
  /\ inv[1].r = "truthy"
  /\ inv[2].r = "truthy"
  /\ promise = Fulfilled(ItemValue(snap[1][2]))
  /\ promise = Fulfilled(Find(atCall, Outcomes))

\* Both invocations are truthy, the second settled before the first and gave
\* findAsync its value while the reaction job of the first was still queued.
C18_WitnessLaterFirst ==
  /\ op = "findAsync"
  /\ Len(inv) = 2
  /\ settled = <<2, 1>>
  /\ inv[1].r = "truthy"
  /\ jobs = <<1>>
  /\ agg = Fulfilled(ItemValue(snap[2][2]))

\* C19: nothing locks the collection during sweepAsync: while it is suspended a push
\* or remove of another caller can be made and takes effect on the live collection
\* in that very step, without touching the traversal; and the number sweepAsync
\* resolves with is the size at the call minus the size at the return, whoever
\* changed it.
C19_NoLocking ==
  [][op = "sweepAsync" =>
       /\ (pc = "awaiting" /\ mutations < MaxMutations)
            => ENABLED (\E e \in Mutations : Interfere(e))
       /\ (pc = "awaiting" /\ mutations' = mutations + 1)
            => /\ \E e \in Mutations : coll' = Apply(coll, e)
               /\ coll' # coll
               /\ UNCHANGED <<pc, snap, inv, jobs, agg, promise, swept>>
       /\ (pc = "awaiting" /\ pc' = "done")
            => promise' = Fulfilled(NumValue(Len(atCall) - Len(coll)))
    ]_vars

\* sweepAsync has resolved with a number that is not the number of entries its own
\* callbacks deleted: another caller changed the collection meanwhile.
C19_Witness ==
  /\ op = "sweepAsync"
  /\ Len(inv) = 2
  /\ pc = "done"
  /\ promise.state = "fulfilled"
  /\ mutations > 0
  /\ swept > 0
  /\ promise.val # NumValue(swept)

\* The promise the operation returned is settled, and every invocation that was
\* started has settled and been reacted to.
Resolved == promise.state \in {"fulfilled", "rejected"}
AllStartedSettled == \A i \in DOMAIN inv : inv[i].st \in {"unstarted", "reacted"}

\* C20: when every promise an invocation returned eventually settles, a call of
\* findAsync, filterAsync, mapAsync or sweepAsync with a callable argument
\* eventually resolves, and every invocation that was started eventually settles and
\* has its callback run, also when findAsync resolved before it: none is cancelled.
C20_EventuallyResolves ==
  (IsAsync /\ callable) ~> (Resolved /\ AllStartedSettled)

\* findAsync has resolved while the invocation for the first entry is still pending,
\* and that invocation can still settle.
C20_Witness ==
  /\ op = "findAsync"
  /\ callable
  /\ pc = "done"
  /\ promise.state = "fulfilled"
  /\ Len(inv) = 2
  /\ inv[1].st = "pending"
  /\ ENABLED Settle(1, "truthy")

====
